---- MODULE Spec2Model ----
(***************************************************************************)
(* Model of lib/morphs/recoverable.js: the Recoverable morph.              *)
(*                                                                         *)
(* The store holds one record per entity.  Every invocation of a static or *)
(* instance method runs in a call slot; a slot holds the in-memory         *)
(* document the invocation works on, its arguments, and a log of what it   *)
(* did to its collaborators (callback invocations, send, encryptPassword,  *)
(* save) and of how the returned promise settled.                          *)
(*                                                                         *)
(* One action is one turn of the event loop: the code that runs from the   *)
(* completion of an asynchronous collaborator call (findOne, send,         *)
(* encryptPassword, save) up to the next such call.                        *)
(*                                                                         *)
(* Strings are sequences of character codes.  Codes 0..9 are digits, codes *)
(* from LetterBase on are lower-case letters, and a letter's upper-case    *)
(* form is its code plus CaseShift.                                        *)
(***************************************************************************)
EXTENDS Integers, Sequences, FiniteSets, TLC

\* ------------------------------------------------------------------ bounds
NumEntities == 2      \* entities in the store, entity e has email e
NumCalls == 1         \* call slots (invocations that can be in flight)
MaxTime == 1          \* the clock runs over 0..MaxTime (one unit = one day)
MaxLifeSpan == 1      \* options.recoverable.tokenLifeSpan ranges over 0..MaxLifeSpan
MaxPasscode == 1      \* randomize draws the passcodes 000000..MaxPasscode
NumPasswords == 1     \* distinct new passwords callers supply
NumRacers == 2        \* invocations in flight together in SpecRace

\* --------------------------------------------------------------- constants
PasscodeLen == 6
Null == -1
NullToken == <<Null>>
LetterBase == 10
CaseShift == 100
HashBase == 50

ErrInvalidToken == "Invalid recovery token"
ErrExpired == "Recovery token expired"
ErrInvalidDetails == "Invalid recovery details"
ErrTypeError == "TypeError"
ErrHash == "encryptPassword error"
ErrSave == "save error"

Entities == 1..NumEntities
Calls == 1..NumCalls
Passwords == 1..NumPasswords
TokenTypes == {"default", "passcode"}
Racers == 1..NumRacers

VARIABLES store, now, options, calls

vars == <<store, now, options, calls>>

\* ------------------------------------------------------------ collaborators
\* Utils.addDays(n): the date n days from now.
AddDays(n) == now + n

\* Utils.isAfter(first, second): first is not later than second.
IsAfter(first, second) == first <= second

\* Utils.tokenizer(seed).encrypt(subject): a string keyed by seed and subject.
Encrypt(seed, subject) == <<LetterBase + seed, LetterBase + subject>>

\* Utils.tokenizer(seed).match(token, subject)
TokenizerMatch(seed, token, subject) == token = Encrypt(seed, subject)

\* entity.encryptPassword(): the stored credential of a plaintext password.
Hash(password) == HashBase + password

\* randomize('0', 6): a string of PasscodeLen decimal digits.
RECURSIVE Pow10(_)
Pow10(k) == IF k = 0 THEN 1 ELSE 10 * Pow10(k - 1)
Digits(n) == [i \in 1..PasscodeLen |-> (n \div Pow10(PasscodeLen - i)) % 10]
Passcodes == {Digits(n) : n \in 0..MaxPasscode}

\* new RegExp(pattern, 'i') tested against a stored string, for a pattern
\* without metacharacters: the pattern occurs somewhere in the string, letters
\* compared without case.
Fold(ch) == IF ch >= CaseShift THEN ch - CaseShift ELSE ch
RegexMatch(pattern, str) ==
  \E i \in 0..(Len(str) - Len(pattern)) :
    \A j \in 1..Len(pattern) :
      Fold(pattern[j]) = Fold(str[i + j])

\* getRecoveryToken(payload, tokenType), code being what randomize returns
getRecoveryToken(payload, tokenType, code) ==
  IF tokenType = "passcode"
    THEN code
    ELSE Encrypt(payload.recoveryTokenExpiryAt, payload.email)

\* ------------------------------------------------------------------- state
\* schema.add: the recoverable attributes and their defaults
NewEntity(e) ==
  [email |-> e,
   password |-> Hash(0),
   recoveryToken |-> NullToken,
   recoveryTokenExpiryAt |-> Null,
   recoverySentAt |-> Null,
   recoveredAt |-> Null]

NoDoc == NewEntity(0)

\* a call slot before any invocation.  op, hasDone, rawToken, newPassword and
\* criteria are the invocation and its arguments; ent is the entity findOne
\* returned (0 for none), found the document as it was when the invocation
\* got it and doc the document as the invocation has it now; cb lists the
\* invocations of done, settled and value say how the returned promise
\* settled, and the Calls fields count the calls of send, tokenizer.match,
\* encryptPassword and save.  calledAt is the time of the invocation, and
\* repeat says that a recover repeats, with the same token and on the same
\* entity, the recover that resolved in this slot just before it.
IdleCall ==
  [op |-> "none", pc |-> "idle", hasDone |-> FALSE,
   rawToken |-> <<>>, newPassword |-> 0, criteria |-> 0,
   calledAt |-> 0, repeat |-> FALSE,
   ent |-> 0, found |-> NoDoc, doc |-> NoDoc,
   isTokenExpired |-> FALSE,
   cb |-> <<>>, settled |-> "pending", value |-> "none",
   sendCalls |-> 0, matchCalls |-> 0, encryptCalls |-> 0, saveCalls |-> 0]

\* a slot can take a new invocation when the previous one has settled
Free(c) == calls[c].pc \in {"idle", "done", "loaded"}

\* done(error) and done(null, recoverable)
CbErr(error) == <<error, FALSE>>
CbOk == <<"null", TRUE>>
Invoke(call, args) ==
  IF call.hasDone THEN [call EXCEPT !.cb = Append(@, args)] ELSE call

Resolve(call, v) == [call EXCEPT !.settled = "resolved", !.value = v, !.pc = "done"]
Reject(call, error) == [call EXCEPT !.settled = "rejected", !.value = error, !.pc = "done"]

\* a catch of requestRecover that never rethrows
RequestRecoverCatchSwallow(call, error) ==
  Resolve(Invoke(call, CbErr(error)), "undefined")

\* the catch of requestRecover: done(error) when there is a done, and the
\* chain then resolves with undefined; the error is rethrown otherwise
RequestRecoverCatch(call, error) ==
  IF call.hasDone
    THEN Resolve(Invoke(call, CbErr(error)), "undefined")
    ELSE Reject(call, error)

\* a catch of recover that does not rethrow
RecoverCatchSwallow(call, error) ==
  Resolve(Invoke(call, CbErr(error)), "undefined")

\* the catch of recover: done(error) when there is a done, and rethrow
RecoverCatch(call, error) == Reject(Invoke(call, CbErr(error)), error)

Init ==
  /\ store = [e \in Entities |-> NewEntity(e)]
  /\ now = 0
  /\ options \in [tokenType : TokenTypes, tokenLifeSpan : 0..MaxLifeSpan]
  /\ calls = [c \in Calls |-> IdleCall]

\* the clock advances
Tick ==
  /\ now < MaxTime
  /\ now' = now + 1
  /\ UNCHANGED <<store, options, calls>>

\* --------------------------------------------------------- instance methods
\* generateRecoveryToken without the clearing of recoveredAt
generateRecoveryTokenKeep(recoverable, code) ==
  LET recoveryTokenExpiryAt == AddDays(options.tokenLifeSpan) IN
  [recoverable EXCEPT
     !.recoveryToken =
        getRecoveryToken([recoveryTokenExpiryAt |-> recoveryTokenExpiryAt,
                          email |-> recoverable.email],
                         options.tokenType, code),
     !.recoveryTokenExpiryAt = recoveryTokenExpiryAt]

\* schema.methods.generateRecoveryToken, on the in-memory document
generateRecoveryToken(recoverable, code) ==
  LET recoveryTokenExpiryAt == AddDays(options.tokenLifeSpan) IN
  [recoverable EXCEPT
     !.recoveryToken =
        getRecoveryToken([recoveryTokenExpiryAt |-> recoveryTokenExpiryAt,
                          email |-> recoverable.email],
                         options.tokenType, code),
     !.recoveryTokenExpiryAt = recoveryTokenExpiryAt,
     !.recoveredAt = Null]

\* sendRecovery without the back-off
sendRecoveryAlways(call) ==
  [call EXCEPT !.pc = "sending", !.sendCalls = @ + 1]

\* schema.methods.sendRecovery up to its first asynchronous call: either the
\* back-off (pc "backoff", nothing sent) or the call of send (pc "sending")
sendRecovery(call) ==
  LET isRecovered == call.doc.recoveredAt # Null IN
  IF isRecovered
    THEN [call EXCEPT !.pc = "backoff"]
    ELSE [call EXCEPT !.pc = "sending", !.sendCalls = @ + 1]

\* a caller obtains the model instance of entity e
LoadInstance(c, e) ==
  /\ Free(c)
  /\ calls' = [calls EXCEPT ![c] =
       [IdleCall EXCEPT !.op = "instance", !.pc = "loaded",
                        !.ent = e, !.found = store[e], !.doc = store[e]]]
  /\ UNCHANGED <<store, now, options>>

\* a generateRecoveryToken that saves the document it changed
CallGenerateRecoveryTokenSave(c, hasDone, code) ==
  /\ calls[c].pc = "loaded"
  /\ LET call == [IdleCall EXCEPT !.op = "generateRecoveryToken",
                                  !.calledAt = now,
                                  !.hasDone = hasDone,
                                  !.ent = calls[c].ent,
                                  !.found = calls[c].doc,
                                  !.doc = generateRecoveryToken(calls[c].doc, code)]
         called == Invoke(call, CbOk)
     IN /\ calls' = [calls EXCEPT ![c] =
             [called EXCEPT !.settled = "resolved", !.value = "entity",
                            !.pc = "loaded"]]
        /\ store' = [store EXCEPT ![call.ent] = call.doc]
  /\ UNCHANGED <<now, options>>

\* instance.generateRecoveryToken(done)
CallGenerateRecoveryToken(c, hasDone, code) ==
  /\ calls[c].pc = "loaded"
  /\ LET call == [IdleCall EXCEPT !.op = "generateRecoveryToken",
                                  !.calledAt = now,
                                  !.hasDone = hasDone,
                                  !.ent = calls[c].ent,
                                  !.found = calls[c].doc,
                                  !.doc = generateRecoveryToken(calls[c].doc, code)]
         called == Invoke(call, CbOk)
     IN calls' = [calls EXCEPT ![c] =
          [called EXCEPT !.settled = "resolved", !.value = "entity", !.pc = "loaded"]]
  /\ UNCHANGED <<store, now, options>>

\* instance.sendRecovery(done)
CallSendRecovery(c, hasDone) ==
  /\ calls[c].pc = "loaded"
  /\ LET call == [IdleCall EXCEPT !.op = "sendRecovery",
                                  !.calledAt = now,
                                  !.hasDone = hasDone,
                                  !.ent = calls[c].ent,
                                  !.found = calls[c].doc,
                                  !.doc = calls[c].doc]
         sent == sendRecovery(call)
     IN calls' = [calls EXCEPT ![c] =
          IF sent.pc = "backoff"
            THEN [Invoke(sent, CbOk) EXCEPT
                    !.settled = "resolved", !.value = "entity", !.pc = "loaded"]
            ELSE sent]
  /\ UNCHANGED <<store, now, options>>

\* send's completion callback finish(): stamp recoverySentAt and call save
SendFinish(c) ==
  /\ calls[c].pc = "sending"
  /\ calls' = [calls EXCEPT ![c] =
       [@ EXCEPT !.doc.recoverySentAt = now, !.saveCalls = @ + 1, !.pc = "sendSaving"]]
  /\ UNCHANGED <<store, now, options>>

\* a save of sendRecovery that does not write recoveryTokenExpiryAt
SendSavedPartial(c) ==
  /\ calls[c].pc = "sendSaving"
  /\ store' = [store EXCEPT
       ![calls[c].ent].recoveryToken = calls[c].doc.recoveryToken,
       ![calls[c].ent].recoverySentAt = calls[c].doc.recoverySentAt,
       ![calls[c].ent].recoveredAt = calls[c].doc.recoveredAt]
  /\ calls' = [calls EXCEPT ![c] = Resolve(Invoke(@, CbOk), "entity")]
  /\ UNCHANGED <<now, options>>

\* sendRecovery resolving without the save having been applied
SendSavedUnsaved(c) ==
  /\ calls[c].pc = "sendSaving"
  /\ calls' = [calls EXCEPT ![c] = Resolve(Invoke(@, CbOk), "entity")]
  /\ UNCHANGED <<store, now, options>>

\* save's callback without error: sendRecovery resolves; inside requestRecover
\* the chain goes on to done(null, recoverable)
SendSaved(c) ==
  /\ calls[c].pc = "sendSaving"
  /\ store' = [store EXCEPT ![calls[c].ent] = calls[c].doc]
  /\ calls' = [calls EXCEPT ![c] = Resolve(Invoke(@, CbOk), "entity")]
  /\ UNCHANGED <<now, options>>

\* a save callback that ignores the error of save
SendSaveFailedResolve(c) ==
  /\ calls[c].pc = "sendSaving"
  /\ calls' = [calls EXCEPT ![c] = Resolve(Invoke(@, CbOk), "entity")]
  /\ UNCHANGED <<store, now, options>>

\* save's callback with an error: sendRecovery rejects; inside requestRecover
\* the catch hands the error to done when there is one and rethrows otherwise
SendSaveFailed(c) ==
  /\ calls[c].pc = "sendSaving"
  /\ calls' = [calls EXCEPT ![c] =
       IF @.op = "requestRecover"
         THEN RequestRecoverCatch(@, ErrSave)
         ELSE Reject(Invoke(@, CbErr(ErrSave)), ErrSave)]
  /\ UNCHANGED <<store, now, options>>

\* ----------------------------------------------------------- static methods
\* a requestRecover that sends without generating a token first
RequestRecoverNoGenerate(c, criteria, hasDone, code) ==
  /\ Free(c)
  /\ LET call == [IdleCall EXCEPT !.op = "requestRecover", !.hasDone = hasDone,
                                  !.calledAt = now,
                                  !.criteria = criteria]
         recoverableNotExist == criteria \notin Entities
         loaded == [call EXCEPT !.ent = criteria, !.found = store[criteria],
                       !.doc = store[criteria]]
         sent == sendRecovery(loaded)
     IN calls' = [calls EXCEPT ![c] =
          IF recoverableNotExist
            THEN RequestRecoverCatch(call, ErrInvalidDetails)
            ELSE IF sent.pc = "backoff"
                   THEN Resolve(Invoke(sent, CbOk), "entity")
                   ELSE sent]
  /\ UNCHANGED <<store, now, options>>

\* Recoverable.requestRecover(criteria, done); criteria selects by email
RequestRecover(c, criteria, hasDone, code) ==
  /\ Free(c)
  /\ LET call == [IdleCall EXCEPT !.op = "requestRecover", !.hasDone = hasDone,
                                  !.calledAt = now,
                                  !.criteria = criteria]
         recoverableNotExist == criteria \notin Entities
         loaded == [call EXCEPT !.ent = criteria, !.found = store[criteria],
                       !.doc = generateRecoveryToken(store[criteria], code)]
         sent == sendRecovery(loaded)
     IN calls' = [calls EXCEPT ![c] =
          IF recoverableNotExist
            THEN RequestRecoverCatch(call, ErrInvalidDetails)
            ELSE IF sent.pc = "backoff"
                   THEN Resolve(Invoke(sent, CbOk), "entity")
                   ELSE sent]
  /\ UNCHANGED <<store, now, options>>

Upper(str) == [i \in 1..Len(str) |-> IF str[i] >= LetterBase /\ str[i] < CaseShift
                                       THEN str[i] + CaseShift ELSE str[i]]

\* every token the model can issue
Issuable ==
  {Encrypt(t, e) : t \in 0..(MaxTime + MaxLifeSpan), e \in Entities} \cup Passcodes

\* the strings a caller can pass as recoveryToken: the issuable tokens, their
\* upper-case forms and their first characters, and the empty string
RawTokens ==
  Issuable \cup {Upper(t) : t \in Issuable}
           \cup {SubSeq(t, 1, 1) : t \in Issuable}
           \cup {<<>>}

\* the strings callers do pass: those made from the tokens now stored, a
\* token of the kind issued at time 0, and the empty string
Stale == IF options.tokenType = "passcode" THEN Digits(0) ELSE Encrypt(0, 1)
Passed(rawToken) ==
  LET stored == {store[e].recoveryToken : e \in Entities} \ {NullToken} IN
  \/ rawToken \in {Stale, <<>>}
  \/ \E t \in stored : rawToken \in {t, Upper(t), SubSeq(t, 1, 1)}

\* findOne({recoveryToken: {$regex: token}}): the entities the lookup can
\* return; a null recoveryToken matches no pattern
Lookup(rawToken) ==
  {e \in Entities : /\ store[e].recoveryToken # NullToken
                    /\ RegexMatch(rawToken, store[e].recoveryToken)}

\* recover's chain when findOne returned nothing: the first stage reports to
\* done and returns null, the expiry stage then reads a property of null, and
\* the catch reports that TypeError to done and rethrows it
RecoverNotExist(call) ==
  RecoverCatch(Invoke(call, CbErr(ErrInvalidToken)), ErrTypeError)

\* recover's chain with a verification stage that does not look at tokenType
RecoverExistAlwaysVerify(call, e, prev) ==
  LET recoverable == store[e]
      isTokenExpired == ~IsAfter(now, recoverable.recoveryTokenExpiryAt)
      expiryStage == IF isTokenExpired
                       THEN Invoke(call, CbErr(ErrExpired))
                       ELSE call
      verifyStage ==
        IF ~TokenizerMatch(recoverable.recoveryTokenExpiryAt,
                           call.rawToken, recoverable.email)
          THEN Invoke(expiryStage, CbErr(ErrInvalidToken))
          ELSE expiryStage
  IN [verifyStage EXCEPT
        !.ent = e,
        !.repeat = /\ prev.op = "recover"
                   /\ prev.settled = "resolved"
                   /\ prev.rawToken = call.rawToken
                   /\ prev.ent = e,
        !.found = recoverable,
        !.isTokenExpired = isTokenExpired,
        !.matchCalls = 1,
        !.doc = [recoverable EXCEPT !.password = call.newPassword],
        !.encryptCalls = 1,
        !.pc = "encrypting"]

\* recover's chain when findOne returned entity e: the expiry stage, the
\* verification stage, and the stage that sets the password and calls
\* encryptPassword
RecoverExist(call, e, prev) ==
  LET recoverable == store[e]
      isTokenExpired == ~IsAfter(now, recoverable.recoveryTokenExpiryAt)
      expiryStage == IF isTokenExpired
                       THEN Invoke(call, CbErr(ErrExpired))
                       ELSE call
      verifies == options.tokenType # "passcode"
      verifyStage ==
        IF verifies /\ ~TokenizerMatch(recoverable.recoveryTokenExpiryAt,
                                       call.rawToken, recoverable.email)
          THEN Invoke(expiryStage, CbErr(ErrInvalidToken))
          ELSE expiryStage
  IN [verifyStage EXCEPT
        !.ent = e,
        !.repeat = /\ prev.op = "recover"
                   /\ prev.settled = "resolved"
                   /\ prev.rawToken = call.rawToken
                   /\ prev.ent = e,
        !.found = recoverable,
        !.isTokenExpired = isTokenExpired,
        !.matchCalls = IF verifies THEN 1 ELSE 0,
        !.doc = [recoverable EXCEPT !.password = call.newPassword],
        !.encryptCalls = 1,
        !.pc = "encrypting"]

\* Recoverable.recover(recoveryToken, newPassword, done)
Recover(c, recoveryToken, newPassword, hasDone) ==
  /\ Free(c)
  /\ Passed(recoveryToken)
  /\ LET call == [IdleCall EXCEPT !.op = "recover", !.hasDone = hasDone,
                                  !.calledAt = now,
                                  !.rawToken = recoveryToken,
                                  !.newPassword = newPassword]
         returned == IF Lookup(recoveryToken) = {}
                       THEN {0}
                       ELSE Lookup(recoveryToken)
     IN \E e \in returned :
          calls' = [calls EXCEPT ![c] =
            IF e = 0 THEN RecoverNotExist(call)
                     ELSE RecoverExist(call, e, calls[c])]
  /\ UNCHANGED <<store, now, options>>

\* recover saving without waiting for encryptPassword
RecoverEncryptedPlain(c) ==
  /\ calls[c].pc = "encrypting"
  /\ calls' = [calls EXCEPT ![c] =
       [@ EXCEPT !.doc.recoveredAt = now, !.saveCalls = 1, !.pc = "saving"]]
  /\ UNCHANGED <<store, now, options>>

\* encryptPassword resolved: stamp recoveredAt and call save
RecoverEncrypted(c) ==
  /\ calls[c].pc = "encrypting"
  /\ calls' = [calls EXCEPT ![c] =
       [@ EXCEPT !.doc.password = Hash(@), !.doc.recoveredAt = now,
                 !.saveCalls = 1, !.pc = "saving"]]
  /\ UNCHANGED <<store, now, options>>

\* encryptPassword rejected: the catch reports to done and rethrows
RecoverEncryptFailed(c) ==
  /\ calls[c].pc = "encrypting"
  /\ calls' = [calls EXCEPT ![c] = RecoverCatch(@, ErrHash)]
  /\ UNCHANGED <<store, now, options>>

\* a save of recover that consumes the token it was given
RecoverSavedClearToken(c) ==
  /\ calls[c].pc = "saving"
  /\ store' = [store EXCEPT ![calls[c].ent] =
       [calls[c].doc EXCEPT !.recoveryToken = NullToken]]
  /\ calls' = [calls EXCEPT ![c] = Resolve(Invoke(@, CbOk), "entity")]
  /\ UNCHANGED <<now, options>>

\* save resolved: done(null, recoverable) and the chain resolves
RecoverSaved(c) ==
  /\ calls[c].pc = "saving"
  /\ store' = [store EXCEPT ![calls[c].ent] = calls[c].doc]
  /\ calls' = [calls EXCEPT ![c] = Resolve(Invoke(@, CbOk), "entity")]
  /\ UNCHANGED <<now, options>>

\* save rejected: the catch reports to done and rethrows
RecoverSaveFailed(c) ==
  /\ calls[c].pc = "saving"
  /\ calls' = [calls EXCEPT ![c] = RecoverCatch(@, ErrSave)]
  /\ UNCHANGED <<store, now, options>>

\* ------------------------------------------------------------------- steps
\* the criteria callers pass: the email of an entity, or of nobody
Criteria == 1..(NumEntities + 1)

Next ==
  \/ Tick
  \/ \E c \in Calls, e \in Entities : LoadInstance(c, e)
  \/ \E c \in Calls, h \in BOOLEAN, code \in Passcodes :
       CallGenerateRecoveryToken(c, h, code)
  \/ \E c \in Calls, h \in BOOLEAN : CallSendRecovery(c, h)
  \/ \E c \in Calls : SendFinish(c)
  \/ \E c \in Calls : SendSaved(c)
  \/ \E c \in Calls : SendSaveFailed(c)
  \/ \E c \in Calls, k \in Criteria, h \in BOOLEAN, code \in Passcodes :
       RequestRecover(c, k, h, code)
  \/ \E c \in Calls, t \in RawTokens, p \in Passwords, h \in BOOLEAN :
       Recover(c, t, p, h)
  \/ \E c \in Calls : RecoverEncrypted(c)
  \/ \E c \in Calls : RecoverEncryptFailed(c)
  \/ \E c \in Calls : RecoverSaved(c)
  \/ \E c \in Calls : RecoverSaveFailed(c)

Spec == Init /\ [][Next]_vars

\* ------------------------------------------------------------------- races
\* requestRecover invocations in flight together: every racer invokes
\* requestRecover once, and the turns of the invocations interleave
InitRace ==
  /\ store = [e \in Entities |-> NewEntity(e)]
  /\ now = 0
  /\ options \in [tokenType : TokenTypes, tokenLifeSpan : 0..MaxLifeSpan]
  /\ calls = [c \in Racers |-> IdleCall]

RaceRequestRecover(c, criteria, hasDone, code) ==
  /\ calls[c].pc = "idle"
  /\ RequestRecover(c, criteria, hasDone, code)

NextRace ==
  \/ Tick
  \/ \E c \in Racers, k \in Criteria, h \in BOOLEAN, code \in Passcodes :
       RaceRequestRecover(c, k, h, code)
  \/ \E c \in Racers : SendFinish(c)
  \/ \E c \in Racers : SendSaved(c)
  \/ \E c \in Racers : SendSaveFailed(c)

SpecRace == InitRace /\ [][NextRace]_vars

\* ------------------------------------------------------------- properties
\* slot c holds a recover that located an entity
Located(c) == calls[c].op = "recover" /\ calls[c].ent # 0

\* the raw token of a recover verifies against the token material of the
\* entity it located: tokenizer match in default mode, equality with the stored
\* token in passcode mode
Verifies(call) ==
  IF options.tokenType = "passcode"
    THEN call.rawToken = call.found.recoveryToken
    ELSE TokenizerMatch(call.found.recoveryTokenExpiryAt, call.rawToken,
                        call.found.email)

\* slot c changed in this step and now holds a settled invocation of op
Settles(c, op) ==
  /\ calls'[c] # calls[c]
  /\ calls'[c].op = op
  /\ calls'[c].pc = "done"

\* C1: a recover that locates an entity whose token has expired fails with
\* 'Recovery token expired', calls neither encryptPassword nor save, and
\* leaves the persisted password and recoveredAt of the entity as they were.
C1_ExpiredTokenRejected ==
  \A c \in Calls :
    Located(c) /\ calls[c].isTokenExpired =>
      /\ calls[c].encryptCalls = 0
      /\ calls[c].saveCalls = 0
      /\ store[calls[c].ent].password = calls[c].found.password
      /\ store[calls[c].ent].recoveredAt = calls[c].found.recoveredAt
      /\ calls[c].pc = "done" =>
           calls[c].settled = "rejected" /\ calls[c].value = ErrExpired

\* C2: in default mode a recover that locates an entity whose tokenizer does
\* not match the raw token fails with 'Invalid recovery token' and runs none
\* of the later stages (encryptPassword, save).
C2_MismatchAborts ==
  \A c \in Calls :
    /\ Located(c)
    /\ options.tokenType # "passcode"
    /\ ~TokenizerMatch(calls[c].found.recoveryTokenExpiryAt, calls[c].rawToken,
                       calls[c].found.email)
    => /\ calls[c].encryptCalls = 0
       /\ calls[c].saveCalls = 0
       /\ calls[c].pc = "done" =>
            calls[c].settled = "rejected" /\ calls[c].value = ErrInvalidToken

\* C3: a recover whose raw token matches no stored token rejects with
\* 'Invalid recovery token', hands done that error and nothing else, and
\* persists nothing.
C3_NoMatchInvalidToken ==
  \A c \in Calls :
    calls[c].op = "recover" /\ calls[c].pc = "done" /\ calls[c].ent = 0 =>
      /\ calls[c].settled = "rejected"
      /\ calls[c].value = ErrInvalidToken
      /\ calls[c].hasDone => calls[c].cb = <<CbErr(ErrInvalidToken)>>
      /\ calls[c].saveCalls = 0

\* C4: a recover that repeats, with the same stored token T and nothing in
\* between, a recover that resolved does not resolve and does not save.
C4_TokenSingleUse ==
  \A c \in Calls :
    /\ Located(c)
    /\ calls[c].repeat
    /\ calls[c].rawToken = calls[c].found.recoveryToken
    /\ calls[c].pc = "done"
    => calls[c].settled # "resolved" /\ calls[c].saveCalls = 0

\* C5: a recover persists a new password only if, when it was called, the
\* located entity's token had not expired and the raw token verified against
\* the stored token material (tokenizer match in default mode, equality with
\* the stored passcode in passcode mode).
C5_ChangeOnlyIfValid ==
  \A c \in Calls :
    Located(c) /\ calls[c].pc = "done" /\ calls[c].settled = "resolved" =>
      ~calls[c].isTokenExpired /\ Verifies(calls[c])

\* C6: with tokenLifeSpan > 0, a requestRecover that resolves with the entity
\* resolves with recoveryToken non-null, recoveryTokenExpiryAt later than the
\* time of the call, recoveredAt null and recoverySentAt set, and at that
\* moment the persisted entity is exactly that document; the only failure of
\* a requestRecover that found its entity is that of save.
C6_RequestRecoverResult ==
  [][\A c \in Calls :
       /\ Settles(c, "requestRecover")
       /\ calls'[c].ent # 0
       /\ options.tokenLifeSpan > 0
       => IF calls'[c].value = "entity"
            THEN /\ calls'[c].settled = "resolved"
                 /\ calls'[c].doc.recoveryToken # NullToken
                 /\ calls'[c].doc.recoveryTokenExpiryAt > calls'[c].calledAt
                 /\ calls'[c].doc.recoveredAt = Null
                 /\ calls'[c].doc.recoverySentAt # Null
                 /\ store'[calls'[c].ent] = calls'[c].doc
            ELSE /\ calls[c].pc = "sendSaving"
                 /\ calls'[c].value \in {ErrSave, "undefined"}]_vars

C6_Witness ==
  \E c \in Calls :
    /\ calls[c].op = "requestRecover"
    /\ calls[c].pc = "done"
    /\ calls[c].value = "entity"
    /\ options.tokenLifeSpan > 0
    /\ calls[c].found.recoveredAt # Null
    /\ calls[c].found.recoveryToken # NullToken

\* C7: a requestRecover whose criteria match no entity settles at once:
\* without a done it rejects with 'Invalid recovery details', with a done the
\* done gets that error and no second argument; no token is generated, send
\* is not called and the store is not written.
C7_RequestRecoverNotFound ==
  [][\A c \in Calls :
       Settles(c, "requestRecover") /\ calls'[c].criteria \notin Entities =>
         /\ IF calls'[c].hasDone
              THEN calls'[c].cb = <<CbErr(ErrInvalidDetails)>>
              ELSE /\ calls'[c].cb = <<>>
                   /\ calls'[c].settled = "rejected"
                   /\ calls'[c].value = ErrInvalidDetails
         /\ Free(c)
         /\ calls'[c].ent = 0
         /\ calls'[c].doc = NoDoc
         /\ calls'[c].sendCalls = 0
         /\ calls'[c].saveCalls = 0
         /\ store' = store]_vars

C7_Witness ==
  \E c \in Calls :
    /\ calls[c].op = "requestRecover"
    /\ calls[c].pc = "done"
    /\ calls[c].criteria \notin Entities
    /\ calls[c].settled = "rejected"

\* C8: a default-mode recover called with the stored, unexpired token saves
\* only after encryptPassword has replaced the plaintext: when it resolves,
\* it resolves with the entity, and the persisted entity has recoveredAt set
\* and the hash of newPassword as password; it fails only with the error of
\* encryptPassword or of save; and no persisted password is ever a plaintext.
CorrectToken(call) ==
  /\ call.op = "recover"
  /\ call.ent # 0
  /\ options.tokenType # "passcode"
  /\ ~call.isTokenExpired
  /\ Verifies(call)

C8_RecoverSuccess ==
  /\ [](\A e \in Entities : store[e].password \notin Passwords)
  /\ [](\A c \in Calls :
          calls[c].saveCalls > 0 /\ calls[c].op = "recover" =>
            calls[c].doc.password = Hash(calls[c].newPassword))
  /\ [][\A c \in Calls :
          Settles(c, "recover") /\ CorrectToken(calls'[c]) =>
            IF calls'[c].settled = "resolved"
              THEN /\ calls'[c].value = "entity"
                   /\ store'[calls'[c].ent] = calls'[c].doc
                   /\ store'[calls'[c].ent].recoveredAt # Null
                   /\ store'[calls'[c].ent].password = Hash(calls'[c].newPassword)
              ELSE /\ calls'[c].value \in {ErrHash, ErrSave}
                   /\ store' = store]_vars

C8_Witness ==
  \E c \in Calls :
    /\ CorrectToken(calls[c])
    /\ calls[c].pc = "done"
    /\ calls[c].settled = "resolved"
    /\ store[calls[c].ent].password = Hash(calls[c].newPassword)
    /\ calls[c].found.password # Hash(calls[c].newPassword)

\* C9: after generateRecoveryToken the in-memory entity has recoveredAt null,
\* whatever it was before, with the token and the expiry generated by the
\* call; the same holds of the document of a requestRecover that found its
\* entity, until send has completed.
Generated(call) ==
  /\ call.doc.recoveredAt = Null
  /\ call.doc.recoveryTokenExpiryAt = call.calledAt + options.tokenLifeSpan
  /\ IF options.tokenType = "passcode"
       THEN call.doc.recoveryToken \in Passcodes
       ELSE call.doc.recoveryToken =
              Encrypt(call.doc.recoveryTokenExpiryAt, call.doc.email)

C9_GenerateClearsRecoveredAt ==
  \A c \in Calls :
    /\ calls[c].op = "generateRecoveryToken" =>
         Generated(calls[c]) /\ calls[c].settled = "resolved"
    /\ calls[c].op = "requestRecover" /\ calls[c].ent # 0 => Generated(calls[c])

C9_Witness ==
  \E c \in Calls :
    /\ calls[c].op = "generateRecoveryToken"
    /\ calls[c].found.recoveredAt # Null
    /\ calls[c].found.recoveryToken # calls[c].doc.recoveryToken

\* C10: sendRecovery on an entity whose recoveredAt is set calls neither send
\* nor save, leaves every field of the entity as it was, and resolves with it.
C10_SendRecoveryBackOff ==
  \A c \in Calls :
    calls[c].op = "sendRecovery" /\ calls[c].found.recoveredAt # Null =>
      /\ calls[c].sendCalls = 0
      /\ calls[c].saveCalls = 0
      /\ calls[c].doc = calls[c].found
      /\ calls[c].settled = "resolved"
      /\ calls[c].value = "entity"
      /\ calls[c].hasDone => calls[c].cb = <<CbOk>>

C10_Witness ==
  \E c \in Calls :
    /\ calls[c].op = "sendRecovery"
    /\ calls[c].found.recoveredAt # Null
    /\ calls[c].hasDone

\* the errors of the collaborators encryptPassword and save
CollaboratorErrors == {ErrHash, ErrSave}

\* C11: a recover that located an entity calls tokenizer.match exactly when
\* tokenType is not 'passcode'; in passcode mode a recover that located an
\* entity whose token has not expired never calls it and, unless
\* encryptPassword or save fails, resolves with the entity, persisted with
\* the hash of newPassword as password and recoveredAt set.
C11_PasscodeSkipsMatch ==
  /\ [](\A c \in Calls :
          Located(c) =>
            (calls[c].matchCalls = 1 <=> options.tokenType # "passcode")
            /\ calls[c].matchCalls \in {0, 1})
  /\ [][\A c \in Calls :
          /\ Settles(c, "recover")
          /\ calls'[c].ent # 0
          /\ options.tokenType = "passcode"
          /\ ~calls'[c].isTokenExpired
          => /\ calls'[c].matchCalls = 0
             /\ IF calls'[c].settled = "resolved"
                  THEN /\ calls'[c].value = "entity"
                       /\ store'[calls'[c].ent] = calls'[c].doc
                       /\ store'[calls'[c].ent].recoveredAt # Null
                       /\ store'[calls'[c].ent].password =
                            Hash(calls'[c].newPassword)
                  ELSE calls'[c].value \in CollaboratorErrors]_vars

C11_Witness ==
  \E c \in Calls :
    /\ Located(c)
    /\ options.tokenType = "passcode"
    /\ ~calls[c].isTokenExpired
    /\ calls[c].rawToken = calls[c].found.recoveryToken
    /\ calls[c].pc = "done"
    /\ calls[c].settled = "resolved"
    /\ calls[c].matchCalls = 0
    /\ store[calls[c].ent].password # calls[c].found.password

\* C12: in default mode a recover called with the token T stored on the
\* entity it locates, the collaborators not failing, resolves when it is
\* called not after the stored expiry E (the tokenizer rebuilt from E matches
\* T against the email) and rejects with 'Recovery token expired' when it is
\* called after E.
C12_RoundTrip ==
  \A c \in Calls :
    /\ Located(c)
    /\ options.tokenType # "passcode"
    /\ calls[c].rawToken = calls[c].found.recoveryToken
    /\ calls[c].pc = "done"
    /\ calls[c].value \notin CollaboratorErrors
    => IF calls[c].calledAt <= calls[c].found.recoveryTokenExpiryAt
         THEN /\ TokenizerMatch(calls[c].found.recoveryTokenExpiryAt,
                                calls[c].rawToken, calls[c].found.email)
              /\ calls[c].settled = "resolved"
         ELSE /\ calls[c].settled = "rejected"
              /\ calls[c].value = ErrExpired

\* the (recoveryToken, recoveryTokenExpiryAt) pair of a document
Pair(doc) == <<doc.recoveryToken, doc.recoveryTokenExpiryAt>>

\* racer c invoked requestRecover and found entity e
Requested(c, e) == calls[c].op = "requestRecover" /\ calls[c].ent = e

\* C13: with requestRecover invocations racing on an entity, the persisted
\* (recoveryToken, recoveryTokenExpiryAt) pair changes only in the step that
\* applies the save of one of them, and becomes the pair that invocation
\* generated; so the persisted pair is always the pair of the invocation
\* whose save was applied last, never a mix, and every invocation that found
\* the entity has called send exactly once.
C13_LastWriteWins ==
  /\ [][\A e \in Entities :
          store'[e] # store[e] =>
            \E c \in Racers :
              /\ calls[c].pc = "sendSaving"
              /\ Settles(c, "requestRecover")
              /\ calls'[c].ent = e
              /\ Pair(store'[e]) = Pair(calls'[c].doc)
              /\ Pair(calls'[c].doc) =
                   <<getRecoveryToken(
                       [recoveryTokenExpiryAt |->
                          calls'[c].calledAt + options.tokenLifeSpan,
                        email |-> e],
                       options.tokenType, calls'[c].doc.recoveryToken),
                     calls'[c].calledAt + options.tokenLifeSpan>>]_vars
  /\ [](\A e \in Entities :
          \/ Pair(store[e]) = Pair(NewEntity(e))
          \/ \E c \in Racers :
               /\ Requested(c, e)
               /\ calls[c].settled = "resolved"
               /\ Pair(store[e]) = Pair(calls[c].doc))
  /\ [](\A c \in Racers :
          calls[c].op = "requestRecover" /\ calls[c].ent # 0 =>
            calls[c].sendCalls = 1)

\* two racers resolved on the same entity with different pairs
C13_Witness ==
  \E c, d \in Racers, e \in Entities :
    /\ Requested(c, e) /\ Requested(d, e)
    /\ calls[c].settled = "resolved" /\ calls[d].settled = "resolved"
    /\ calls[c].doc.recoveryToken # calls[d].doc.recoveryToken
    /\ calls[c].doc.recoveryTokenExpiryAt # calls[d].doc.recoveryTokenExpiryAt
    /\ calls[c].doc.recoverySentAt > calls[d].doc.recoverySentAt
    /\ Pair(store[e]) = Pair(calls[d].doc)

\* C14: generateRecoveryToken calls neither save nor send and leaves the store
\* as it is; of the in-memory entity it changes recoveryToken,
\* recoveryTokenExpiryAt and recoveredAt only (password, recoverySentAt and
\* email stay), and it resolves with the entity.  Inside requestRecover the
\* document is the same up to the completion of send.
C14_GenerateDoesNotPersist ==
  /\ [][\A c \in Calls :
          calls'[c] # calls[c] /\ calls'[c].op = "generateRecoveryToken" =>
            /\ store' = store
            /\ calls'[c].saveCalls = 0
            /\ calls'[c].sendCalls = 0
            /\ calls'[c].settled = "resolved"
            /\ calls'[c].value = "entity"
            /\ calls'[c].hasDone => calls'[c].cb = <<CbOk>>
            /\ calls'[c].found = calls[c].doc
            /\ calls'[c].doc =
                 [calls[c].doc EXCEPT
                    !.recoveryToken = calls'[c].doc.recoveryToken,
                    !.recoveryTokenExpiryAt = calls'[c].doc.recoveryTokenExpiryAt,
                    !.recoveredAt = calls'[c].doc.recoveredAt]]_vars
  /\ [](\A c \in Calls :
          calls[c].op = "requestRecover" /\ calls[c].pc = "sending" =>
            /\ calls[c].saveCalls = 0
            /\ calls[c].doc.password = calls[c].found.password
            /\ calls[c].doc.recoverySentAt = calls[c].found.recoverySentAt
            /\ calls[c].doc.email = calls[c].found.email)

C14_Witness ==
  \E c \in Calls :
    /\ calls[c].op = "generateRecoveryToken"
    /\ calls[c].found.recoverySentAt # Null
    /\ calls[c].found.password # Hash(0)
    /\ calls[c].doc.recoveryToken # calls[c].found.recoveryToken
    /\ store[calls[c].ent] = calls[c].found

\* C15: sendRecovery on an entity whose recoveredAt is null calls send first;
\* recoverySentAt is stamped and save called only when the delivery callback
\* has fired; when save fails the call rejects with the error of save and
\* done gets that error alone, and the call resolves with the entity only
\* when the save was applied.
C15_SendThenSave ==
  /\ [](\A c \in Calls :
          calls[c].op = "sendRecovery" /\ calls[c].found.recoveredAt = Null =>
            /\ calls[c].sendCalls = 1
            /\ calls[c].pc \in {"sending", "sendSaving", "done"}
            /\ calls[c].pc = "sending" =>
                 /\ calls[c].saveCalls = 0
                 /\ calls[c].doc = calls[c].found
                 /\ calls[c].settled = "pending"
            /\ calls[c].pc = "sendSaving" =>
                 /\ calls[c].saveCalls = 1
                 /\ calls[c].doc.recoverySentAt # Null
                 /\ calls[c].doc.recoverySentAt >= calls[c].calledAt
                 /\ calls[c].doc =
                      [calls[c].found EXCEPT
                         !.recoverySentAt = calls[c].doc.recoverySentAt]
                 /\ calls[c].settled = "pending"
            /\ calls[c].pc = "done" =>
                 /\ calls[c].saveCalls = 1
                 /\ IF calls[c].settled = "rejected"
                      THEN /\ calls[c].value = ErrSave
                           /\ calls[c].hasDone => calls[c].cb = <<CbErr(ErrSave)>>
                      ELSE /\ calls[c].settled = "resolved"
                           /\ calls[c].value = "entity"
                           /\ calls[c].hasDone => calls[c].cb = <<CbOk>>)
  /\ [][\A c \in Calls :
          Settles(c, "sendRecovery") =>
            /\ calls[c].pc = "sendSaving"
            /\ IF calls'[c].settled = "resolved"
                 THEN store'[calls'[c].ent] = calls'[c].doc
                 ELSE store' = store]_vars

C15_Witness ==
  \E c \in Calls :
    /\ calls[c].op = "sendRecovery"
    /\ calls[c].found.recoveredAt = Null
    /\ calls[c].pc = "done"
    /\ calls[c].settled = "rejected"
    /\ calls[c].hasDone
    /\ store[calls[c].ent] # calls[c].doc

\* C16: when encryptPassword or save fails in recover, the promise rejects
\* with that error and done, when given, is called with that error; nothing
\* is persisted by the failed call, and after a failure of encryptPassword
\* save has not been called.
C16_FailurePropagates ==
  [][\A c \in Calls :
       /\ Settles(c, "recover")
       /\ calls'[c].ent # 0
       /\ calls'[c].settled # "resolved" \/ calls'[c].value # "entity"
       => LET error == IF calls[c].pc = "encrypting" THEN ErrHash ELSE ErrSave
          IN /\ calls[c].pc \in {"encrypting", "saving"}
             /\ calls'[c].settled = "rejected"
             /\ calls'[c].value = error
             /\ calls'[c].hasDone =>
                  calls'[c].cb = Append(calls[c].cb, CbErr(error))
             /\ calls[c].pc = "encrypting" => calls'[c].saveCalls = 0
             /\ store' = store]_vars

C16_Witness ==
  \E c \in Calls :
    /\ Located(c)
    /\ calls[c].pc = "done"
    /\ calls[c].value = ErrHash
    /\ calls[c].hasDone
    /\ ~calls[c].isTokenExpired
    /\ Verifies(calls[c])

\* C17: an invocation of recover or of requestRecover calls done at most once,
\* whichever path it takes.
C17_CallbackAtMostOnce ==
  \A c \in Calls :
    calls[c].op \in {"recover", "requestRecover"} => Len(calls[c].cb) <= 1

\* C18: every requestRecover that finds an entity calls send exactly once,
\* whatever recoveredAt the entity had: the token generation has cleared
\* recoveredAt before sendRecovery tests it, so the back-off is never taken.
C18_RequestRecoverAlwaysSends ==
  \A c \in Calls :
    calls[c].op = "requestRecover" /\ calls[c].ent # 0 =>
      /\ calls[c].sendCalls = 1
      /\ calls[c].doc.recoveredAt = Null
      /\ calls[c].pc \in {"sending", "sendSaving", "done"}
      /\ calls[c].value = "entity" => calls[c].saveCalls = 1

C18_Witness ==
  \E c \in Calls :
    /\ calls[c].op = "requestRecover"
    /\ calls[c].ent # 0
    /\ calls[c].found.recoveredAt # Null
    /\ calls[c].sendCalls = 1
    /\ calls[c].settled = "resolved"

\* C19: recover changes nothing but password and recoveredAt of the entity it
\* located: the in-memory entity keeps recoveryToken, recoveryTokenExpiryAt,
\* recoverySentAt and email as loaded, the one write of recover goes to the
\* located entity alone, and on an entity still as loaded that write changes
\* password and recoveredAt only.
C19_RecoverFrame ==
  /\ [](\A c \in Calls :
          Located(c) =>
            calls[c].doc =
              [calls[c].found EXCEPT !.password = calls[c].doc.password,
                                     !.recoveredAt = calls[c].doc.recoveredAt])
  /\ [][\A c \in Calls :
          /\ calls'[c] # calls[c]
          /\ calls'[c].op = "recover"
          /\ store' # store
          => LET e == calls[c].ent IN
             /\ calls[c].pc = "saving"
             /\ \A o \in Entities \ {e} : store'[o] = store[o]
             /\ store'[e] = calls[c].doc
             /\ store[e] = calls[c].found =>
                  store'[e] =
                    [store[e] EXCEPT !.password = store'[e].password,
                                     !.recoveredAt = store'[e].recoveredAt]]_vars

C19_Witness ==
  \E c \in Calls :
    /\ Located(c)
    /\ calls[c].value = "entity"
    /\ store[calls[c].ent].password # calls[c].found.password
    /\ store[calls[c].ent].recoveredAt # Null
    /\ store[calls[c].ent].recoveryToken = calls[c].found.recoveryToken
    /\ store[calls[c].ent].recoveryToken # NullToken
    /\ store[calls[c].ent].recoverySentAt # Null
    /\ \E o \in Entities \ {calls[c].ent} : store[o].recoveryToken # NullToken

====
